---- MODULE Spec2Model ----
(***************************************************************************)
(* A model of the TravelAgent repository: the FastAPI service of           *)
(* src/main.py (query_agent over the Travel Planner and its two            *)
(* specialists) and the stand-alone script of                              *)
(* src/travel_multiAgent_handoffs.py (main over the same three agents,     *)
(* with its own copies of the tools).                                      *)
(*                                                                         *)
(* The reasoning capability (the language model behind every Agent) is an  *)
(* arbitrary chooser: at each turn of a run it may call any tool of the    *)
(* current agent with any arguments, hand off to any agent of the current  *)
(* agent's handoffs list, emit any final output, or fail.  What the code   *)
(* fixes is the tools' bodies, each agent's tools / handoffs /             *)
(* output_type, and what query_agent / main do with the run's outcome.     *)
(*                                                                         *)
(* Strings the code inspects (city, destination) are sequences of          *)
(* one-character strings.  Floats are integers (every price of the source  *)
(* is a whole number).  json.dumps(records) is the sequence of records     *)
(* itself: the JSON text that denotes it.                                  *)
(***************************************************************************)
EXTENDS Integers, Sequences, FiniteSets, TLC

\* ------------------------------------------------------------------ bounds

\* Turns (model invocations) a run may take before Runner.run gives up.
MaxTurns == 4

\* ----------------------------------------------------------------- strings

UpperChars == <<"A","B","C","D","E","F","G","H","I","J","K","L","M",
                "N","O","P","Q","R","S","T","U","V","W","X","Y","Z">>
LowerChars == <<"a","b","c","d","e","f","g","h","i","j","k","l","m",
                "n","o","p","q","r","s","t","u","v","w","x","y","z">>

IndexIn(c, alphabet) ==
  IF \E i \in 1..Len(alphabet) : alphabet[i] = c
  THEN CHOOSE i \in 1..Len(alphabet) : alphabet[i] = c
  ELSE 0

IsAlpha(c) == IndexIn(c, UpperChars) # 0 \/ IndexIn(c, LowerChars) # 0

LowerChar(c) == IF IndexIn(c, UpperChars) # 0
                THEN LowerChars[IndexIn(c, UpperChars)] ELSE c

UpperChar(c) == IF IndexIn(c, LowerChars) # 0
                THEN UpperChars[IndexIn(c, LowerChars)] ELSE c

\* str.lower()
Lower(s) == [i \in 1..Len(s) |-> LowerChar(s[i])]

\* str.title(): the first letter of every run of letters in upper case, the
\* others in lower case.
Title(s) == [i \in 1..Len(s) |->
               IF i = 1 \/ ~IsAlpha(s[IF i = 1 THEN 1 ELSE i - 1])
               THEN UpperChar(s[i]) ELSE LowerChar(s[i])]

\* `sub in s` of two Python strings.
Contains(sub, s) ==
  \E k \in 0..(Len(s) - Len(sub)) :
     \A i \in 1..Len(sub) : s[k + i] = sub[i]

Chars_paris   == <<"p","a","r","i","s">>
Chars_sylhet  == <<"s","y","l","h","e","t">>
Chars_dhaka   == <<"d","h","a","k","a">>
Chars_bangkok == <<"b","a","n","g","k","o","k">>

\* The location strings the reasoning capability passes to the search tools.
Locations ==
  { <<"P","a","r","i","s">>,
    <<"S","Y","L","H","E","T">>,
    <<"o","l","d"," ","D","h","a","k","a">>,
    <<"B","a","n","g","k","o","k">>,
    <<"s","y","l","h","e","t","-","p","a","r","i","s">>,
    <<"t","o","k","y","o">>,
    <<"n","e","w"," ","y","o","r","k">>,
    <<>> }

\* An optional float: <<>> is None, <<p>> is the number p.
None == <<>>
Some(p) == <<p>>
\* Python truthiness of an optional number: None and 0 are falsy.
Truthy(opt) == opt # None /\ opt[1] # 0

MaxPrices == { None, Some(0), Some(50), Some(80), Some(90), Some(100),
               Some(200), Some(250) }

\* ------------------------------------------------- tools of src/main.py

Flight(airline, dep, arr, price, direct) ==
  [airline |-> airline, departure_time |-> dep, arrival_time |-> arr,
   price |-> price, direct |-> direct]

\* A hotel's name is <<fixed text, titled city, fixed text>>.
Hotel(name, location, price, amenities) ==
  [name |-> name, location |-> location, price_per_night |-> price,
   amenities |-> amenities]

FixedName(text) == <<text, <<>>, "">>

search_flights_candidates(destination) ==
  LET dest_lower == Lower(destination) IN
  IF Contains(Chars_sylhet, dest_lower) THEN
    << Flight("Biman Bangladesh", "08:00", "08:45", 45, TRUE),
       Flight("US-Bangla", "14:30", "15:15", 50, TRUE) >>
  ELSE IF Contains(Chars_bangkok, dest_lower) THEN
    << Flight("Thai Airways", "11:00", "14:30", 350, TRUE),
       Flight("Biman Bangladesh", "10:00", "13:30", 280, TRUE) >>
  ELSE
    << Flight("Global Air", "09:00", "12:00", 150, FALSE),
       Flight("Eco Fly", "18:00", "21:00", 120, TRUE) >>

search_flights(origin, destination, date) ==
  search_flights_candidates(destination)

\* [h for h in hotels if h["price_per_night"] <= max_price]
RECURSIVE FilterByPrice(_, _)
FilterByPrice(hotels, p) ==
  IF hotels = <<>> THEN <<>>
  ELSE (IF Head(hotels).price_per_night <= p THEN <<Head(hotels)>> ELSE <<>>)
       \o FilterByPrice(Tail(hotels), p)

\* search_hotels with its else branch lost: an unknown city finds nothing.
search_hotels_candidates_NoFallback(city) ==
  LET city_lower == Lower(city) IN
  IF Contains(Chars_paris, city_lower) THEN
    << Hotel(FixedName("Hotel Eiffel Paris"), "Central Paris", 220, <<"WiFi", "Pool">>),
       Hotel(FixedName("Seine River View"), "Riverside", 180, <<"WiFi", "Parking">>) >>
  ELSE IF Contains(Chars_sylhet, city_lower) THEN
    << Hotel(FixedName("Grand Sylhet Hotel"), "Airport Road", 90, <<"Pool", "WiFi", "Buffet">>),
       Hotel(FixedName("Rose View Hotel"), "Shahjalal Upashahar", 70, <<"Gym", "Breakfast">>) >>
  ELSE IF Contains(Chars_dhaka, city_lower) THEN
    << Hotel(FixedName("InterContinental Dhaka"), "Minto Road", 150, <<"Luxury Pool", "Spa">>),
       Hotel(FixedName("Pan Pacific Sonargaon"), "Karwan Bazar", 130, <<"Gym", "Bar">>) >>
  ELSE <<>>

search_hotels_candidates(city) ==
  LET city_lower == Lower(city) IN
  IF Contains(Chars_paris, city_lower) THEN
    << Hotel(FixedName("Hotel Eiffel Paris"), "Central Paris", 220, <<"WiFi", "Pool">>),
       Hotel(FixedName("Seine River View"), "Riverside", 180, <<"WiFi", "Parking">>) >>
  ELSE IF Contains(Chars_sylhet, city_lower) THEN
    << Hotel(FixedName("Grand Sylhet Hotel"), "Airport Road", 90, <<"Pool", "WiFi", "Buffet">>),
       Hotel(FixedName("Rose View Hotel"), "Shahjalal Upashahar", 70, <<"Gym", "Breakfast">>) >>
  ELSE IF Contains(Chars_dhaka, city_lower) THEN
    << Hotel(FixedName("InterContinental Dhaka"), "Minto Road", 150, <<"Luxury Pool", "Spa">>),
       Hotel(FixedName("Pan Pacific Sonargaon"), "Karwan Bazar", 130, <<"Gym", "Bar">>) >>
  ELSE
    << Hotel(<<"", Title(city), " City Center Hotel">>, "Downtown", 100, <<"WiFi", "Restaurant">>),
       Hotel(<<"The ", Title(city), " Inn">>, "Near Airport", 80, <<"Parking", "Breakfast">>) >>

\* `if max_price:` of search_hotels.
PriceFilterApplies(max_price) == Truthy(max_price)

search_hotels(city, check_in, check_out, max_price) ==
  LET hotels == search_hotels_candidates(city) IN
  IF PriceFilterApplies(max_price)
  THEN FilterByPrice(hotels, max_price[1])
  ELSE hotels

\* -------------------------- tools of src/travel_multiAgent_handoffs.py

\* The script's search_flights returns one fixed list, whatever it is asked
\* (its 420.50 is written 420).
handoffs_search_flights(origin, destination, date) ==
  << Flight("Qatar Airways", "09:10", "13:40", 420, TRUE),
     Flight("Emirates", "22:00", "06:30", 380, FALSE) >>

handoffs_search_hotels_candidates(city) ==
  << Hotel(FixedName("Hotel Eiffel Paris"), "Central Paris", 220, <<"WiFi", "Pool", "Breakfast">>),
     Hotel(FixedName("Seine River View"), "Riverside", 180, <<"WiFi", "Parking">>) >>

handoffs_search_hotels(city, check_in, check_out, max_price) ==
  LET hotels == handoffs_search_hotels_candidates(city) IN
  IF PriceFilterApplies(max_price)
  THEN FilterByPrice(hotels, max_price[1])
  ELSE hotels

\* ------------------------------------------------------------ the weather

\* What requests.get(url) does: a 200 with the documented body, a 200 whose body
\* lacks the fields read, a non-200 with a JSON error body, a non-200 whose body
\* is not JSON, or an exception (no route, DNS, timeout).
HttpResponses == { "ok", "ok_malformed", "non200_json", "non200_text",
                   "connection_error" }

\* lat, lon the reasoning capability passes.
Coordinates == { <<23, 90>>, <<35, 139>> }

Returned(text, at) == [kind |-> "return", text |-> text, at |-> at]
Raised(text)       == [kind |-> "raise", text |-> text, at |-> <<>>]

\* src/main.py: everything after the key check runs inside try/except Exception.
get_weather_forecast(lat, lon, api_key, response) ==
  IF ~api_key THEN Returned("Weather API key missing. Assume sunny.", <<>>)
  ELSE CASE response = "connection_error" -> Returned("Weather error: connection", <<>>)
         [] response = "ok"               -> Returned("Weather at", <<lat, lon>>)
         [] response = "ok_malformed"     -> Returned("Weather error: key", <<>>)
         [] OTHER                         -> Returned("Weather unavailable.", <<>>)

\* src/travel_multiAgent_handoffs.py: no try/except around the request, the
\* status check or the reads of the body.
handoffs_get_weather_forecast(lat, lon, api_key, response) ==
  IF ~api_key THEN Returned("Weather API key not configured.", <<>>)
  ELSE CASE response = "connection_error" -> Raised("ConnectionError")
         [] response = "non200_json"      -> Returned("Failed to fetch weather. Error:", <<>>)
         [] response = "non200_text"      -> Raised("JSONDecodeError")
         [] response = "ok_malformed"     -> Raised("KeyError")
         [] OTHER                         -> Returned("Current weather at", <<lat, lon>>)

\* ------------------------------------------------------------- the schemas

\* A JSON value carries its type: a number, a text, a boolean, a list of texts.
Num(n)   == [t |-> "num",  v |-> n]
Str(s)   == [t |-> "str",  v |-> s]
Bool(b)  == [t |-> "bool", v |-> b]
List(l)  == [t |-> "list", v |-> l]

\* The pydantic models: every field is required, and only its type is declared.
FlightRecommendation ==
  [airline |-> "str", departure_time |-> "str", arrival_time |-> "str",
   price |-> "num", direct_flight |-> "bool", recommendation_reason |-> "str"]

HotelRecommendation ==
  [name |-> "str", location |-> "str", price_per_night |-> "num",
   amenities |-> "list", recommendation_reason |-> "str"]

TravelPlan ==
  [destination |-> "str", duration_days |-> "num", budget |-> "num",
   activities |-> "list", notes |-> "str"]

Schema(class) ==
  CASE class = "FlightRecommendation" -> FlightRecommendation
    [] class = "HotelRecommendation"  -> HotelRecommendation
    [] class = "TravelPlan"           -> TravelPlan

ModelClasses == { "FlightRecommendation", "HotelRecommendation", "TravelPlan" }

\* Validation of a JSON object against a model: every declared field is
\* present with the declared type.  Nothing else is checked.
Validates(class, raw) ==
  \A f \in DOMAIN Schema(class) : f \in DOMAIN raw /\ raw[f].t = Schema(class)[f]

\* The instance validation builds: the declared fields only (extra keys of the
\* JSON object are dropped), under the model's class.
Instance(class, raw) ==
  [class |-> class, fields |-> [f \in DOMAIN Schema(class) |-> raw[f].v]]

NoObject == [class |-> "NoneType", fields |-> <<>>]

hasattr(obj, f) == f \in DOMAIN obj.fields

\* -------------------------------------------------------------- the agents

Planner == "Travel Planner"
FlightSpecialist == "Flight Specialist"
HotelSpecialist == "Hotel Specialist"
Specialists == { FlightSpecialist, HotelSpecialist }
Agents == { Planner } \cup Specialists

\* The Flight Specialist given both search tools.
AgentTools_Shared(a) ==
  CASE a = "Travel Planner"    -> { "get_weather_forecast" }
    [] a = "Flight Specialist" -> { "search_flights", "search_hotels" }
    [] a = "Hotel Specialist"  -> { "search_hotels" }

\* Every agent given the weather tool.
AgentTools_WeatherEverywhere(a) ==
  CASE a = "Travel Planner"    -> { "get_weather_forecast" }
    [] a = "Flight Specialist" -> { "search_flights", "get_weather_forecast" }
    [] a = "Hotel Specialist"  -> { "search_hotels", "get_weather_forecast" }

\* Agent(tools=[...]): the same lists in both files.
AgentTools(a) ==
  CASE a = Planner          -> { "get_weather_forecast" }
    [] a = FlightSpecialist -> { "search_flights" }
    [] a = HotelSpecialist  -> { "search_hotels" }

\* The specialists given a handoff back to the planner.
AgentHandoffs_Back(a) ==
  IF a = "Travel Planner" THEN { "Flight Specialist", "Hotel Specialist" }
  ELSE { "Travel Planner" }

\* The specialists given a handoff to each other.
AgentHandoffs_Peer(a) ==
  CASE a = "Travel Planner"    -> { "Flight Specialist", "Hotel Specialist" }
    [] a = "Flight Specialist" -> { "Hotel Specialist" }
    [] a = "Hotel Specialist"  -> { "Flight Specialist" }

\* Agent(handoffs=[...]): only travel_agent has any.
AgentHandoffs(a) ==
  IF a = Planner THEN { FlightSpecialist, HotelSpecialist } ELSE {}

\* Agent(output_type=...)
AgentOutputType(a) ==
  CASE a = Planner          -> "TravelPlan"
    [] a = FlightSpecialist -> "FlightRecommendation"
    [] a = HotelSpecialist  -> "HotelRecommendation"

\* ------------------------------- what the reasoning capability may emit

GoodFlight ==
  [airline |-> Str("Eco Fly"), departure_time |-> Str("18:00"),
   arrival_time |-> Str("21:00"), price |-> Num(120), direct_flight |-> Bool(TRUE),
   recommendation_reason |-> Str("cheapest direct")]

GoodHotel ==
  [name |-> Str("Seine River View"), location |-> Str("Riverside"),
   price_per_night |-> Num(180), amenities |-> List(<<"WiFi", "Parking">>),
   recommendation_reason |-> Str("under budget")]

GoodPlan ==
  [destination |-> Str("Tokyo"), duration_days |-> Num(7), budget |-> Num(3000),
   activities |-> List(<<"Senso-ji">>), notes |-> Str("carry cash")]

\* The final outputs a model may produce: conformant ones, ones whose values no
\* travel product has, ones with a field missing or of the wrong type, objects
\* mixing two shapes, and a text that is no object of any schema.
FinalOutputs ==
  { GoodFlight,
    [GoodFlight EXCEPT !.price = Num(-5)],
    [GoodFlight EXCEPT !.price = Str("cheap")],
    [f \in DOMAIN GoodFlight \ {"recommendation_reason"} |-> GoodFlight[f]],
    GoodHotel,
    [GoodHotel EXCEPT !.price_per_night = Num(-1)],
    [GoodHotel EXCEPT !.amenities = List(<<>>)],
    GoodPlan,
    [GoodPlan EXCEPT !.duration_days = Num(0)],
    [GoodPlan EXCEPT !.budget = Num(-100)],
    [f \in DOMAIN GoodPlan \cup DOMAIN GoodFlight |->
       IF f \in DOMAIN GoodPlan THEN GoodPlan[f] ELSE GoodFlight[f]],
    [f \in DOMAIN GoodPlan \cup DOMAIN GoodHotel |->
       IF f \in DOMAIN GoodPlan THEN GoodPlan[f] ELSE GoodHotel[f]],
    [text |-> Str("Here is your trip!")] }

\* ------------------------------------------------ the outcome of a run

StrObject(text) == [class |-> "str", fields |-> [text |-> text]]

\* result of `await Runner.run(...)`: the final output, or the exception raised.
RunCompleted(final) == [raised |-> FALSE, cause |-> "", final_output |-> final]
RunRaised(cause)    == [raised |-> TRUE, cause |-> cause, final_output |-> NoObject]

\* The flight test made on a field the hotel model declares too.
ResponseTypeOf_SharedField(final) ==
  IF hasattr(final, "recommendation_reason") THEN "flight"
  ELSE IF hasattr(final, "name") /\ hasattr(final, "amenities") THEN "hotel"
  ELSE IF hasattr(final, "destination") THEN "travel_plan"
  ELSE "general"

\* The chain with the plan test moved to the front.
ResponseTypeOf_PlanFirst(final) ==
  IF hasattr(final, "destination") THEN "travel_plan"
  ELSE IF hasattr(final, "airline") THEN "flight"
  ELSE IF hasattr(final, "name") /\ hasattr(final, "amenities") THEN "hotel"
  ELSE "general"

\* "Identify type" of query_agent, and the if/elif chain of the script's main.
ResponseTypeOf(final) ==
  IF hasattr(final, "airline") THEN "flight"
  ELSE IF hasattr(final, "name") /\ hasattr(final, "amenities") THEN "hotel"
  ELSE IF hasattr(final, "destination") THEN "travel_plan"
  ELSE "general"

\* TravelResponse.data: Union[FlightRecommendation, HotelRecommendation,
\* TravelPlan, str, Dict]; an instance of a member is kept as it is, anything
\* else fails validation.
UnionAccepts(data) == data.class \in ModelClasses \cup { "str", "dict" }

TravelResponse(success, response_type, data, message) ==
  [success |-> success, response_type |-> response_type, data |-> data,
   message |-> message]

NoEnvelope == TravelResponse(FALSE, "none", NoObject, "")

\* The except branch of query_agent.
ErrorResponse(cause) ==
  TravelResponse(FALSE, "error", StrObject(cause), "An error occurred")

\* query_agent catching only the envelope's own validation error: an
\* exception of the run leaves the handler, and no envelope is returned.
query_agent_uncaught(run) ==
  IF run.raised THEN NoEnvelope
  ELSE LET final == run.final_output
           res_type == ResponseTypeOf(final)
       IN IF UnionAccepts(final)
          THEN TravelResponse(TRUE, res_type, final, "Success")
          ELSE ErrorResponse("ValidationError")

\* query_agent from the return of Runner.run on: the try body, and the except
\* branch for the run's exception or the envelope's own validation error.
query_agent(run) ==
  IF run.raised THEN ErrorResponse(run.cause)
  ELSE LET final == run.final_output
           res_type == ResponseTypeOf(final)
       IN IF UnionAccepts(final)
          THEN TravelResponse(TRUE, res_type, final, "Success")
          ELSE ErrorResponse("ValidationError")

\* The script's main: what it prints for the run; an exception is not caught.
handoffs_main(run) ==
  IF run.raised THEN "traceback" ELSE ResponseTypeOf(run.final_output)

\* ------------------------------------------------------------------ state

VARIABLES
  program,        \* "main" (the service) or "handoffs" (the script)
  api_key,        \* whether WEATHER_API_KEY is set in the environment
  pc,             \* "idle" | "running" | "done"
  agent,          \* the agent the run is at
  turn,           \* model invocations of the run so far
  handoffs,       \* the agents handed off to, in order
  calls,          \* per tool, its invocations in this run
  weatherAfterHandoff, \* get_weather_forecast invocations after a handoff
  lastHotels,     \* the last search_hotels call: arguments and result
  lastFlights,    \* the last search_flights call: arguments and result
  lastWeather,    \* the last get_weather_forecast call: arguments and outcome
  weatherFailed,  \* a weather lookup of this run met a failure
  producer,       \* the agent whose final output ended the run, or "none"
  run,            \* the run's outcome once it has ended
  envelope,       \* what query_agent returned (service)
  printed,        \* what main printed (script)
  kept            \* a response a caller of the service kept, to compare

vars == << program, api_key, pc, agent, turn, handoffs, calls,
           weatherAfterHandoff, lastHotels, lastFlights, lastWeather,
           weatherFailed, producer, run, envelope, printed, kept >>

ToolNames == { "get_weather_forecast", "search_flights", "search_hotels" }

NoHotels  == [called |-> FALSE, city |-> <<>>, max_price |-> None, result |-> <<>>]
NoFlights == [called |-> FALSE, destination |-> <<>>, result |-> <<>>]
NoWeather == [called |-> FALSE, response |-> "", outcome |-> Returned("", <<>>)]
NoneKept  == [set |-> FALSE, run |-> RunRaised(""),
              success |-> FALSE, response_type |-> "none"]

\* The state a run starts from: Runner.run(travel_agent, query).
RunStart ==
  /\ agent' = Planner
  /\ turn' = 0
  /\ handoffs' = <<>>
  /\ calls' = [t \in ToolNames |-> 0]
  /\ weatherAfterHandoff' = 0
  /\ lastHotels' = NoHotels
  /\ lastFlights' = NoFlights
  /\ lastWeather' = NoWeather
  /\ weatherFailed' = FALSE
  /\ producer' = "none"
  /\ run' = RunRaised("")
  /\ envelope' = NoEnvelope
  /\ printed' = "none"

Init ==
  /\ program \in { "main", "handoffs" }
  /\ api_key \in BOOLEAN
  /\ pc = "idle"
  /\ agent = Planner
  /\ turn = 0
  /\ handoffs = <<>>
  /\ calls = [t \in ToolNames |-> 0]
  /\ weatherAfterHandoff = 0
  /\ lastHotels = NoHotels
  /\ lastFlights = NoFlights
  /\ lastWeather = NoWeather
  /\ weatherFailed = FALSE
  /\ producer = "none"
  /\ run = RunRaised("")
  /\ envelope = NoEnvelope
  /\ printed = "none"
  /\ kept = NoneKept

\* ---------------------------------------------------------------- actions

\* The tool bodies of the running program.
WeatherTool(lat, lon, response) ==
  IF program = "main"
  THEN get_weather_forecast(lat, lon, api_key, response)
  ELSE handoffs_get_weather_forecast(lat, lon, api_key, response)

FlightsTool(destination) ==
  IF program = "main"
  THEN search_flights(<<>>, destination, "")
  ELSE handoffs_search_flights(<<>>, destination, "")

HotelsTool(city, max_price) ==
  IF program = "main"
  THEN search_hotels(city, "", "", max_price)
  ELSE handoffs_search_hotels(city, "", "", max_price)

\* query_agent tagging a result by the search tool the run used, not by the
\* result itself.
Finish_TagByTools(r) ==
  /\ pc' = "done"
  /\ run' = r
  /\ envelope' =
       IF program # "main" THEN NoEnvelope
       ELSE IF r.raised \/ ~UnionAccepts(r.final_output) THEN query_agent(r)
       ELSE TravelResponse(TRUE,
              IF calls["search_flights"] > 0 THEN "flight"
              ELSE IF calls["search_hotels"] > 0 THEN "hotel"
              ELSE IF hasattr(r.final_output, "destination") THEN "travel_plan"
              ELSE "general",
              r.final_output, "Success")
  /\ printed' = IF program = "handoffs" THEN handoffs_main(r) ELSE "none"

\* The run ends: query_agent builds and returns its envelope (service), or main
\* prints the result or dies of the exception (script).
Finish(r) ==
  /\ pc' = "done"
  /\ run' = r
  /\ envelope' = IF program = "main" THEN query_agent(r) ELSE NoEnvelope
  /\ printed' = IF program = "handoffs" THEN handoffs_main(r) ELSE "none"

\* A request reaches POST /query (the service serves one after another), or the
\* script starts on its one query.
QueryStart ==
  /\ pc = "idle" \/ (pc = "done" /\ program = "main")
  /\ pc' = "running"
  /\ RunStart
  /\ UNCHANGED << program, api_key >>

Query ==
  /\ QueryStart
  /\ UNCHANGED kept

\* The current agent's model calls get_weather_forecast.  An exception of a
\* function_tool is reported to the model as the tool's output, and the run
\* goes on.  Without a key the tool returns before it makes its request.
CallWeather ==
  /\ pc = "running" /\ turn < MaxTurns
  /\ "get_weather_forecast" \in AgentTools(agent)
  /\ \E at \in Coordinates,
        response \in (IF api_key THEN HttpResponses ELSE { "not_requested" }) :
       /\ lastWeather' = [called |-> TRUE, response |-> response,
                          outcome |-> WeatherTool(at[1], at[2], response)]
       /\ weatherFailed' = (weatherFailed \/ ~api_key \/ response # "ok")
  /\ turn' = turn + 1
  /\ calls' = [calls EXCEPT !["get_weather_forecast"] = @ + 1]
  /\ weatherAfterHandoff' = weatherAfterHandoff + (IF handoffs # <<>> THEN 1 ELSE 0)
  /\ UNCHANGED << kept, program, api_key, pc, agent, handoffs, lastHotels,
                  lastFlights, producer, run, envelope, printed >>

\* The current agent's model calls search_flights.
CallSearchFlights ==
  /\ pc = "running" /\ turn < MaxTurns
  /\ "search_flights" \in AgentTools(agent)
  /\ \E destination \in Locations :
       lastFlights' = [called |-> TRUE, destination |-> destination,
                       result |-> FlightsTool(destination)]
  /\ turn' = turn + 1
  /\ calls' = [calls EXCEPT !["search_flights"] = @ + 1]
  /\ UNCHANGED << kept, program, api_key, pc, agent, handoffs, weatherAfterHandoff,
                  lastHotels, lastWeather, weatherFailed, producer, run,
                  envelope, printed >>

\* The current agent's model calls search_hotels.
CallSearchHotels ==
  /\ pc = "running" /\ turn < MaxTurns
  /\ "search_hotels" \in AgentTools(agent)
  /\ \E city \in Locations, max_price \in MaxPrices :
       lastHotels' = [called |-> TRUE, city |-> city, max_price |-> max_price,
                      result |-> HotelsTool(city, max_price)]
  /\ turn' = turn + 1
  /\ calls' = [calls EXCEPT !["search_hotels"] = @ + 1]
  /\ UNCHANGED << kept, program, api_key, pc, agent, handoffs, weatherAfterHandoff,
                  lastFlights, lastWeather, weatherFailed, producer, run,
                  envelope, printed >>

\* The current agent's model hands the run off to an agent of its handoffs.
Handoff ==
  /\ pc = "running" /\ turn < MaxTurns
  /\ \E target \in AgentHandoffs(agent) :
       /\ agent' = target
       /\ handoffs' = Append(handoffs, target)
  /\ turn' = turn + 1
  /\ UNCHANGED << kept, program, api_key, pc, calls, weatherAfterHandoff, lastHotels,
                  lastFlights, lastWeather, weatherFailed, producer, run,
                  envelope, printed >>

\* The current agent's model emits a final output, which the run validates
\* against the agent's output_type: the instance ends the run, a
\* non-conformant output raises.
FinalOutput ==
  /\ pc = "running" /\ turn < MaxTurns
  /\ \E raw \in FinalOutputs :
       LET class == AgentOutputType(agent) IN
       IF Validates(class, raw)
       THEN /\ producer' = agent
            /\ Finish(RunCompleted(Instance(class, raw)))
       ELSE /\ producer' = "none"
            /\ Finish(RunRaised("ModelBehaviorError"))
  /\ turn' = turn + 1
  /\ UNCHANGED << kept, program, api_key, agent, handoffs, calls, weatherAfterHandoff,
                  lastHotels, lastFlights, lastWeather, weatherFailed >>

\* The call of the model itself fails (connection, authentication, rate limit).
ModelFailure ==
  /\ pc = "running" /\ turn < MaxTurns
  /\ Finish(RunRaised("APIConnectionError"))
  /\ turn' = turn + 1
  /\ UNCHANGED << kept, program, api_key, agent, handoffs, calls, weatherAfterHandoff,
                  lastHotels, lastFlights, lastWeather, weatherFailed, producer >>

\* The run has used its turns without a final output.
TurnsExceeded ==
  /\ pc = "running" /\ turn = MaxTurns
  /\ Finish(RunRaised("MaxTurnsExceeded"))
  /\ UNCHANGED << kept, program, api_key, agent, turn, handoffs, calls,
                  weatherAfterHandoff, lastHotels, lastFlights, lastWeather,
                  weatherFailed, producer >>

Next ==
  \/ Query
  \/ CallWeather
  \/ CallSearchFlights
  \/ CallSearchHotels
  \/ Handoff
  \/ FinalOutput
  \/ ModelFailure
  \/ TurnsExceeded

Spec == Init /\ [][Next]_vars

\* ------------------------------------------------------------- the claims

Served == program = "main" /\ pc = "done"

\* C1: whenever the run behind query_agent raises (the model call fails, the
\* final output does not validate, the turns run out), query_agent returns an
\* envelope with success = false, response_type = "error", the cause as a
\* string in data, and message = "An error occurred".
C1_ErrorEnvelope ==
  (Served /\ run.raised) =>
     /\ envelope.success = FALSE
     /\ envelope.response_type = "error"
     /\ envelope.data.class = "str"
     /\ envelope.data.fields.text = run.cause
     /\ envelope.message = "An error occurred"

C1_Witness ==
  /\ Served /\ run.raised /\ run.cause = "ModelBehaviorError"
  /\ envelope.response_type = "error"

\* C2: in every success envelope the tag names the class of data: "flight" iff
\* a FlightRecommendation, "hotel" iff a HotelRecommendation, "travel_plan" iff
\* a TravelPlan, "general" only for anything else, and never "error".
C2_TagMatchesVariant ==
  (Served /\ envelope.success) =>
     /\ envelope.response_type = "flight"
          <=> envelope.data.class = "FlightRecommendation"
     /\ envelope.response_type = "hotel"
          <=> envelope.data.class = "HotelRecommendation"
     /\ envelope.response_type = "travel_plan"
          <=> envelope.data.class = "TravelPlan"
     /\ envelope.response_type = "general"
          => envelope.data.class \notin ModelClasses
     /\ envelope.response_type \in { "flight", "hotel", "travel_plan", "general" }

C2_Witness ==
  /\ Served /\ envelope.success
  /\ envelope.response_type = "hotel"
  /\ envelope.data.class = "HotelRecommendation"

\* C3: a run whose final output the Travel Planner produced itself contains no
\* handoff and no call of search_flights or search_hotels.
C3_PlanNeverDelegates ==
  (pc = "done" /\ producer = Planner) =>
     /\ handoffs = <<>>
     /\ calls["search_flights"] = 0
     /\ calls["search_hotels"] = 0

C3_Witness ==
  /\ pc = "done" /\ producer = Planner
  /\ calls["get_weather_forecast"] > 0
  /\ run.final_output.class = "TravelPlan"

PairedTool(a) == IF a = FlightSpecialist THEN "search_flights" ELSE "search_hotels"
OtherTool(a)  == IF a = FlightSpecialist THEN "search_hotels" ELSE "search_flights"

\* C4 as claimed: a run ended by a specialist has exactly one handoff and at
\* most one call of that specialist's search tool.
C4_AtMostOneProviderCall ==
  (pc = "done" /\ producer \in Specialists) =>
     /\ Len(handoffs) = 1
     /\ calls[PairedTool(producer)] <= 1

\* C4 as amended: a run ended by a specialist has exactly one handoff, to that
\* specialist; of the two search tools only the specialist's own is called, and
\* the number of its calls is bounded by the run's turns alone.
C4_OneSpecialistOwnProviderOnly ==
  (pc = "done" /\ producer \in Specialists) =>
     /\ handoffs = << producer >>
     /\ calls[OtherTool(producer)] = 0
     /\ calls[PairedTool(producer)] + 2 <= turn

C4_Witness ==
  /\ pc = "done" /\ producer = HotelSpecialist
  /\ handoffs = << HotelSpecialist >>
  /\ calls["search_hotels"] = 2

\* C5: a run has at most one handoff; once control is with a specialist it
\* stays there (no handoff to the other specialist or back to the planner).
C5_OneLevelDelegation ==
  /\ Len(handoffs) <= 1
  /\ handoffs # <<>> => (agent \in Specialists /\ agent = handoffs[1])
  /\ handoffs = <<>> => agent = Planner

C5_Witness ==
  /\ pc = "running" /\ handoffs = << FlightSpecialist >>
  /\ agent = FlightSpecialist /\ turn >= 3

HotelsCandidates(city) ==
  IF program = "main" THEN search_hotels_candidates(city)
  ELSE handoffs_search_hotels_candidates(city)

Elements(seq) == { seq[i] : i \in 1..Len(seq) }

\* C6 as claimed: with max_price = P supplied (0 included) search_hotels
\* returns exactly the city's candidates with price_per_night <= P; without
\* max_price it returns all candidates.
C6_FilteringLaw ==
  lastHotels.called =>
     LET candidates == HotelsCandidates(lastHotels.city)
         mp == lastHotels.max_price
     IN  IF mp = None
         THEN lastHotels.result = candidates
         ELSE /\ \A h \in Elements(lastHotels.result) : h.price_per_night <= mp[1]
              /\ Elements(lastHotels.result)
                   = { c \in Elements(candidates) : c.price_per_night <= mp[1] }

UnknownHotelCity(city) ==
  /\ ~Contains(Chars_paris, Lower(city))
  /\ ~Contains(Chars_sylhet, Lower(city))
  /\ ~Contains(Chars_dhaka, Lower(city))

UnknownFlightDestination(destination) ==
  /\ ~Contains(Chars_sylhet, Lower(destination))
  /\ ~Contains(Chars_bangkok, Lower(destination))

C8_WeatherNeverRaises ==
  /\ ( /\ lastWeather.called
       /\ \/ ~api_key
          \/ lastWeather.response \in { "connection_error", "non200_json",
                                        "non200_text" } )
       => lastWeather.outcome.kind = "return"
  /\ (Served /\ weatherFailed /\ producer = Planner) => envelope.success

\* C9 as claimed: a structured result in a success envelope has price >= 0
\* (flight), price_per_night >= 0 and some amenity (hotel), duration_days > 0
\* and budget >= 0 (plan).
C9_DataModelConstraints ==
  (Served /\ envelope.success) =>
     LET d == envelope.data IN
     /\ d.class = "FlightRecommendation" => d.fields.price >= 0
     /\ d.class = "HotelRecommendation"
          => (d.fields.price_per_night >= 0 /\ d.fields.amenities # <<>>)
     /\ d.class = "TravelPlan"
          => (d.fields.duration_days > 0 /\ d.fields.budget >= 0)

\* C10 as claimed: a run ended by a specialist contains no call of
\* get_weather_forecast.
C10_NoWeatherInSpecialistRuns ==
  (pc = "done" /\ producer \in Specialists) => calls["get_weather_forecast"] = 0

\* C10 as amended: get_weather_forecast is called by the Travel Planner only:
\* never by a specialist, so never after a handoff (the planner may call it
\* before it hands off).
C10_WeatherOnlyByPlanner ==
  /\ weatherAfterHandoff = 0
  /\ (lastWeather.called /\ handoffs = <<>>) => agent = Planner

C10_Witness ==
  /\ pc = "done" /\ producer = FlightSpecialist
  /\ calls["get_weather_forecast"] = 1
  /\ weatherAfterHandoff = 0

\* ------------------------------------- the tag inference on any result

\* The attributes the tag inference asks for.
ShapeFields == { "airline", "name", "amenities", "destination" }

ObjectWith(class, fieldNames) ==
  [class |-> class, fields |-> [f \in fieldNames |-> "v"]]

\* Results a run could hand to the tag inference: an instance of a model, or of
\* a subclass of it that adds attributes of another shape; an object of no
\* model with any of the attributes; a plain text.
ResultObjects ==
  { ObjectWith(class, DOMAIN Schema(class) \cup extra) :
      class \in ModelClasses, extra \in SUBSET ShapeFields }
  \cup { ObjectWith("object", some) : some \in SUBSET ShapeFields }
  \cup { StrObject("Here is your trip!") }

\* Runner.run has just returned such a result to query_agent / main.
TagInit ==
  /\ program \in { "main", "handoffs" }
  /\ api_key \in BOOLEAN
  /\ pc = "running"
  /\ agent = Planner
  /\ turn = 1
  /\ handoffs = <<>>
  /\ calls = [t \in ToolNames |-> 0]
  /\ weatherAfterHandoff = 0
  /\ lastHotels = NoHotels
  /\ lastFlights = NoFlights
  /\ lastWeather = NoWeather
  /\ weatherFailed = FALSE
  /\ producer = "none"
  /\ run \in { RunCompleted(final) : final \in ResultObjects }
  /\ envelope = NoEnvelope
  /\ printed = "none"
  /\ kept = NoneKept

\* query_agent from `final = result.final_output` on; main from its if/elif on.
IdentifyType ==
  /\ pc = "running" /\ ~run.raised
  /\ Finish(run)
  /\ UNCHANGED << kept, program, api_key, agent, turn, handoffs, calls,
                  weatherAfterHandoff, lastHotels, lastFlights, lastWeather,
                  weatherFailed, producer >>

TagNext == IdentifyType

TagSpec == TagInit /\ [][TagNext]_vars

Has(obj, f) == f \in DOMAIN obj.fields

\* The tag the run's result was given: the envelope's response_type when
\* query_agent delivered the result, the branch main printed.
TagGiven == IF program = "main" THEN envelope.response_type ELSE printed

Tagged == pc = "done" /\ (program = "main" => envelope.success)

\* C11: the tag of a result follows from the presence of fields alone, by the
\* priority flight > hotel > plan > generic: "flight" if it has airline;
\* otherwise "hotel" if it has name and amenities; otherwise "travel_plan" if
\* it has destination; otherwise "general".  A result with flight and plan
\* fields is "flight", one with hotel and plan fields is "hotel".
C11_TagPriority ==
  Tagged =>
    LET obj == run.final_output
        flightShaped == Has(obj, "airline")
        hotelShaped == Has(obj, "name") /\ Has(obj, "amenities")
        planShaped == Has(obj, "destination")
    IN /\ flightShaped => TagGiven = "flight"
       /\ (~flightShaped /\ hotelShaped) => TagGiven = "hotel"
       /\ (~flightShaped /\ ~hotelShaped /\ planShaped) => TagGiven = "travel_plan"
       /\ (~flightShaped /\ ~hotelShaped /\ ~planShaped) => TagGiven = "general"

\* A delivered result with both flight and plan fields, tagged "flight".
C11_Witness ==
  /\ Served /\ envelope.success
  /\ Has(run.final_output, "airline") /\ Has(run.final_output, "destination")
  /\ envelope.response_type = "flight"

\* ------------------------------------------------ the same query again

\* The service alone, serving one query after another.
RepeatInit == Init /\ program = "main"

\* A caller that has not kept a response yet keeps the one it has just
\* received (the run's outcome it answers, the envelope's success flag and
\* tag) and sends a query again.
QueryKeeping ==
  /\ pc = "done" /\ ~kept.set
  /\ kept' = [set |-> TRUE, run |-> run, success |-> envelope.success,
              response_type |-> envelope.response_type]
  /\ QueryStart

RepeatNext == Next \/ QueryKeeping

RepeatSpec == RepeatInit /\ [][RepeatNext]_vars

====
